---- MODULE Spec2Model ----
(***************************************************************************)
(* A model of fpl_deadline_notifier.py: one run of run_daily_digest, the   *)
(* fetch -> enrich -> select -> format -> send pipeline, with the pure     *)
(* metric, ranking and rendering functions as operators.                   *)
(*                                                                         *)
(* Encodings.                                                              *)
(*  - A JSON object is a record; a key the object lacks is a field the     *)
(*    record lacks (Get gives dict.get).  A JSON array is a sequence.      *)
(*    The empty object and the empty array are both <<>>.                  *)
(*  - A JSON string that the code parses (form, selected_by_percent,       *)
(*    deadline_time) is a sequence of one-character (or one-token)         *)
(*    strings, so that parsing is a computation.  JSON null in such a      *)
(*    field is the value JNull.                                            *)
(*  - A Python float is a fixed-point integer.  form_value and             *)
(*    fixture_difficulty are in hundredths; form_fixture_score,            *)
(*    points_per_cost and watch_score are in ten-thousandths.  The input   *)
(*    catalogues only hold costs for which the quotient is exact.          *)
(*  - A rendered text is a sequence of tokens (lines, titles, markers);    *)
(*    in SpecSend a text is a sequence of characters.                      *)
(***************************************************************************)
EXTENDS Integers, Sequences, FiniteSets, TLC

\* ------------------------------------------------------------- constants

\* limit=4096 of clean_and_limit_text
TelegramLimit == 4096

\* the [:5], [:10] and [:3] slices of summarize_players and build_watchlist
TopFive == 5
TopTen == 10
TopThree == 3

\* diffs[:3] of calculate_fixture_difficulty, and its default rating 3
FdrWindow == 3
DefaultDifficulty == 3

\* ------------------------------------------------------------- bounds

\* SpecFdr: the longest fixtures list
MaxFixtures == 4
\* SpecRank: the longest varied head of the elements list, and the length of
\* the run of identical players that may follow it
MaxHead == 4
PadRun == 7
\* SpecScore: the longest elements list
MaxPlayers == 2
\* SpecSend: document lengths range over TelegramLimit - MaxSlack ..
\* TelegramLimit + MaxSlack
MaxSlack == 1

\* ------------------------------------------------------------- JSON helpers

\* dict.get(k, d)
Get(p, k, d) == IF k \in DOMAIN p THEN p[k] ELSE d

\* JSON null in a string-valued field
JNull == <<"null">>

\* the value of a fetch: None, or the parsed body
None == [none |-> TRUE]
Some(body) == [none |-> FALSE, json |-> body]

\* Python truthiness of a fetch result: None, {} and [] are falsy
Falsy(r) == r.none \/ DOMAIN r.json = {}

\* Python truthiness of an environment variable: unset (None) and "" are falsy
EnvValues == {"unset", "empty", "set"}
EnvFalsy(v) == v \in {"unset", "empty"}

Range(s) == {s[i] : i \in DOMAIN s}

Max2(a, b) == IF a >= b THEN a ELSE b
Min2(a, b) == IF a <= b THEN a ELSE b
Abs(x) == IF x < 0 THEN -x ELSE x

RECURSIVE SumSeq(_)
SumSeq(s) == IF s = <<>> THEN 0 ELSE Head(s) + SumSeq(Tail(s))

RECURSIVE Flatten(_)
Flatten(ss) == IF ss = <<>> THEN <<>> ELSE Head(ss) \o Flatten(Tail(ss))

\* seq[:n]
Take(s, n) == SubSeq(s, 1, Min2(n, Len(s)))

\* [x for x in s if Test(x)], by index so that order is kept
SelectIdx(s, keep) ==
    LET F[i \in 0..Len(s)] ==
            IF i = 0 THEN <<>>
            ELSE IF i \in keep THEN Append(F[i-1], s[i]) ELSE F[i-1]
    IN  F[Len(s)]

\* ------------------------------------------------------------- utilities

\* clean_and_limit_text: text[:limit] when longer than limit
clean_and_limit_text(text, limit) ==
    IF Len(text) > limit THEN SubSeq(text, 1, limit) ELSE text

\* requests: the outcomes of one HTTP call
TransportOutcomes == {"timeout", "connection_error"}
StatusCodes == {200, 404, 500}
\* response.raise_for_status(): raises for 4xx and 5xx
RaisesForStatus(code) == code >= 400 /\ code < 600

\* mutant: raise_for_status() is left out, an error page is parsed as data
safe_fetch_json_NoStatusCheck(resp) ==
    IF resp.kind \in TransportOutcomes THEN None ELSE Some(resp.body)

\* safe_fetch_json on a response: None on a transport error or a non-2xx
\* status, the parsed body otherwise
safe_fetch_json(resp) ==
    IF resp.kind \in TransportOutcomes THEN None
    ELSE IF RaisesForStatus(resp.code) THEN None
    ELSE Some(resp.body)

\* the responses the upstream may give for a set of bodies
Responses(bodies) ==
    [kind : TransportOutcomes]
    \cup {[kind |-> "status", code |-> c, body |-> <<>>] : c \in StatusCodes \ {200}}
    \cup {[kind |-> "status", code |-> 200, body |-> b] : b \in bodies}

\* ------------------------------------------------------------- parsing

Digits == <<"0", "1", "2", "3", "4", "5", "6", "7", "8", "9">>
IsDigit(c) == c \in Range(Digits)
DigitVal(c) == (CHOOSE d \in 1..10 : Digits[d] = c) - 1

RECURSIVE NatOf(_)
NatOf(s) ==
    IF s = <<>> THEN 0
    ELSE NatOf(SubSeq(s, 1, Len(s) - 1)) * 10 + DigitVal(s[Len(s)])

\* float(s) of a string: the decimal grammar [+-] digits [. digits], with
\* at least one digit; anything else (and None) raises.
Unsigned(s) == IF s # <<>> /\ s[1] \in {"+", "-"} THEN Tail(s) ELSE s
PointAt(s) == {i \in DOMAIN s : s[i] = "."}
FloatOk(v) ==
    LET s == Unsigned(v)
    IN  /\ v # JNull
        /\ Cardinality(PointAt(s)) <= 1
        /\ \A i \in DOMAIN s \ PointAt(s) : IsDigit(s[i])
        /\ \E i \in DOMAIN s : IsDigit(s[i])

\* the value of float(s) in hundredths, for a string FloatOk accepts
FloatHundredths(v) ==
    LET s == Unsigned(v)
        dot == IF PointAt(s) = {} THEN Len(s) + 1 ELSE CHOOSE i \in PointAt(s) : TRUE
        whole == SubSeq(s, 1, dot - 1)
        frac == SubSeq(s, dot + 1, Len(s))
        frac2 == SubSeq(frac \o <<"0", "0">>, 1, 2)
        mag == NatOf(whole) * 100 + NatOf(frac2)
    IN  IF v # <<>> /\ v[1] = "-" THEN -mag ELSE mag

\* str.replace("Z", "+00:00") on a tokenised timestamp
ReplaceZ(s) == [i \in DOMAIN s |-> IF s[i] = "Z" THEN "+00:00" ELSE s[i]]

\* datetime.fromisoformat: date [T time [offset]]; a trailing "Z" is not
\* accepted, which is why the code replaces it
IsoDates == {"2025-08-15", "2025-08-22", "2025-08-29"}
IsoTimes == {"17:30:00", "10:00:00"}
IsoOffsets == {"+00:00", "+01:00"}
IsoOk(s) ==
    /\ Len(s) \in {1, 3, 4}
    /\ s[1] \in IsoDates
    /\ Len(s) >= 3 => (s[2] = "T" /\ s[3] \in IsoTimes)
    /\ Len(s) = 4 => s[4] \in IsoOffsets

\* ------------------------------------------------------------- sorting

\* sorted(items, key=...): a stable insertion of each item, in encounter
\* order, after every item already placed whose key is <= its own.  The
\* result is the sequence of indices into items.
InsertAsc(i, t, keys) ==
    LET n == Cardinality({k \in DOMAIN t : keys[t[k]] <= keys[i]})
    IN  SubSeq(t, 1, n) \o <<i>> \o SubSeq(t, n + 1, Len(t))

SortedIdxAsc(keys) ==
    LET F[i \in 0..Len(keys)] ==
            IF i = 0 THEN <<>> ELSE InsertAsc(i, F[i-1], keys)
    IN  F[Len(keys)]

\* mutant: the ascending sort reversed, which turns equal keys round
InsertDesc_TiesReversed(i, t, keys) ==
    LET n == Cardinality({k \in DOMAIN t : keys[t[k]] > keys[i]})
    IN  SubSeq(t, 1, n) \o <<i>> \o SubSeq(t, n + 1, Len(t))

\* sorted(items, key=..., reverse=True): descending, and equal keys keep
\* their encounter order (reverse=True does not reverse ties)
InsertDesc(i, t, keys) ==
    LET n == Cardinality({k \in DOMAIN t : keys[t[k]] >= keys[i]})
    IN  SubSeq(t, 1, n) \o <<i>> \o SubSeq(t, n + 1, Len(t))

SortedIdxDesc(keys) ==
    LET F[i \in 0..Len(keys)] ==
            IF i = 0 THEN <<>> ELSE InsertDesc(i, F[i-1], keys)
    IN  F[Len(keys)]

Permute(items, idx) == [k \in DOMAIN idx |-> items[idx[k]]]

\* sorted(items, key=lambda x: x.get(field, 0), reverse=True)
SortedByDesc(items, field) ==
    Permute(items, SortedIdxDesc([i \in DOMAIN items |-> Get(items[i], field, 0)]))

\* sorted(items, key=lambda x: x.get(field, 0))
SortedByAsc(items, field) ==
    Permute(items, SortedIdxAsc([i \in DOMAIN items |-> Get(items[i], field, 0)]))

\* round(x, digits) of a fixed-point value: to the nearest multiple of unit,
\* ties to even
RoundTo(v, unit) ==
    LET q == v \div unit
        r == v % unit
    IN  IF 2 * r < unit THEN q * unit
        ELSE IF 2 * r > unit THEN (q + 1) * unit
        ELSE IF q % 2 = 0 THEN q * unit ELSE (q + 1) * unit

\* ------------------------------------------------------------- deadline

\* mutant: the default of the finished flag is False, as for fixtures
EventUnfinished_DefaultFalse(e) == ~Get(e, "finished", FALSE)

\* not event.get("finished", True)
EventUnfinished(e) == ~Get(e, "finished", TRUE)

\* what get_next_deadline does with one unfinished event: "raise" when
\* deadline_time is null (None has no replace; AttributeError is not among
\* the caught exceptions), "skip" when it is empty or does not parse,
\* "return" otherwise
EventStep(e) ==
    LET raw == Get(e, "deadline_time", <<>>)
        deadline_str == ReplaceZ(raw)
    IN  IF raw = JNull THEN "raise"
        ELSE IF deadline_str = <<>> THEN "skip"
        ELSE IF ~IsoOk(deadline_str) THEN "skip"
        ELSE "return"

\* the triple get_next_deadline returns for event e; gw_id is absent when
\* the event has no id (event.get("id") is None)
DeadlineOf(e) ==
    LET base == [raised |-> FALSE, found |-> TRUE,
                 gw_name |-> Get(e, "name", "Unknown GW"),
                 deadline |-> ReplaceZ(e.deadline_time)]
    IN  IF "id" \in DOMAIN e THEN base @@ [gw_id |-> e.id] ELSE base

\* get_next_deadline(events): the first unfinished event whose deadline
\* parses, or (None, None, None)
RECURSIVE get_next_deadline(_)
get_next_deadline(events) ==
    IF events = <<>> THEN [raised |-> FALSE, found |-> FALSE]
    ELSE LET e == Head(events)
         IN  IF ~EventUnfinished(e) THEN get_next_deadline(Tail(events))
             ELSE CASE EventStep(e) = "raise" -> [raised |-> TRUE, found |-> FALSE]
                    [] EventStep(e) = "skip" -> get_next_deadline(Tail(events))
                    [] OTHER -> DeadlineOf(e)

\* ------------------------------------------------------------- metrics

\* str(t["id"]) for the single-digit ids of the catalogues
IdStr(id) == Digits[id + 1]

\* get_team_data_map(teams): id -> short_name and the two strengths, the
\* strengths (home + away) / 200 in ten-thousandths; a repeated id keeps its
\* last team
get_team_data_map(teams) ==
    [id \in {t.id : t \in Range(teams)} |->
        LET t == teams[CHOOSE i \in DOMAIN teams :
                         teams[i].id = id /\ \A j \in DOMAIN teams : teams[j].id = id => j <= i]
        IN  [short_name |-> Get(t, "short_name", Get(t, "name", IdStr(id))),
             attack_strength |-> 50 * (Get(t, "strength_attack_home", 300)
                                       + Get(t, "strength_attack_away", 300)),
             defence_strength |-> 50 * (Get(t, "strength_defence_home", 300)
                                        + Get(t, "strength_defence_away", 300))]]

\* not f.get("finished", False)
FixtureUnfinished(f) == ~Get(f, "finished", FALSE)

\* the difficulties one fixture appends for team t: the home difficulty when
\* t is home, then the away difficulty when t is away
FixtureDiffs(f, t) ==
    IF ~FixtureUnfinished(f) THEN <<>>
    ELSE (IF f.team_h = t THEN <<Get(f, "team_h_difficulty", DefaultDifficulty)>> ELSE <<>>)
         \o (IF f.team_a = t THEN <<Get(f, "team_a_difficulty", DefaultDifficulty)>> ELSE <<>>)

\* team_fixtures[t] after the loop over fixtures
TeamDiffs(fixtures, t) ==
    Flatten([i \in DOMAIN fixtures |-> FixtureDiffs(fixtures[i], t)])

\* round(sum / n, 2) in hundredths.  For n <= 3 the quotient is never
\* halfway between two hundredths, so the rounding mode does not matter.
RoundedMean(total, n) == (200 * total + n) \div (2 * n)

\* mutant: the mean runs over every upcoming fixture, not the first three
AvgDiff_WholeSeason(diffs) ==
    IF diffs = <<>> THEN 100 * DefaultDifficulty
    ELSE RoundedMean(SumSeq(diffs), Len(diffs))

\* avg_diff of one team
AvgDiff(diffs) ==
    LET upcoming == Take(diffs, FdrWindow)
    IN  IF upcoming = <<>> THEN 100 * DefaultDifficulty
        ELSE RoundedMean(SumSeq(upcoming), Len(upcoming))

\* the keys of team_fixtures: every team, and every side of an unfinished
\* fixture (setdefault)
FdrTeams(fixtures, teams) ==
    {t.id : t \in Range(teams)}
    \cup UNION {{f.team_h, f.team_a} : f \in {g \in Range(fixtures) : FixtureUnfinished(g)}}

\* calculate_fixture_difficulty(fixtures, teams): team id -> FDR in hundredths
calculate_fixture_difficulty(fixtures, teams) ==
    [t \in FdrTeams(fixtures, teams) |-> AvgDiff(TeamDiffs(fixtures, t))]

\* f.get("event") is truthy
HasEvent(f) == "event" \in DOMAIN f /\ f.event # 0

\* relevant_fixtures of build_fixture_map: unfinished, with an event, sorted
\* by event (stable)
RelevantFixtures(fixtures) ==
    SortedByAsc(SelectIdx(fixtures,
                    {i \in DOMAIN fixtures :
                        FixtureUnfinished(fixtures[i]) /\ HasEvent(fixtures[i])}),
                "event")

\* build_fixture_map indexes team_fixtures[f["team_h"]] and [f["team_a"]]
\* without a default: a relevant fixture of a team that is not in teams
\* raises KeyError
FixtureMapRaises(fixtures, teams_map_short) ==
    \E f \in Range(RelevantFixtures(fixtures)) :
        f.team_h \notin DOMAIN teams_map_short \/ f.team_a \notin DOMAIN teams_map_short

\* the "OPP(diff)" entries one fixture offers team t
FixtureEntries(f, t, teams_map_short) ==
    (IF f.team_h = t
     THEN <<[opp |-> teams_map_short[f.team_a],
             diff |-> Get(f, "team_h_difficulty", DefaultDifficulty)]>>
     ELSE <<>>)
    \o (IF f.team_a = t
        THEN <<[opp |-> teams_map_short[f.team_h],
                diff |-> Get(f, "team_a_difficulty", DefaultDifficulty)]>>
        ELSE <<>>)

\* build_fixture_map(fixtures, teams_map_short, gw_id): team id -> its next
\* three fixtures, the joined string as the sequence of its entries
build_fixture_map(fixtures, teams_map_short) ==
    LET rel == RelevantFixtures(fixtures)
    IN  [t \in DOMAIN teams_map_short |->
            Take(Flatten([i \in DOMAIN rel |-> FixtureEntries(rel[i], t, teams_map_short)]),
                 FdrWindow)]

\* p["form_value"]: float(p.get("form") or 0.0), 0.0 when that raises; in
\* hundredths.  An absent, null or empty form is falsy.
FormValue(p) ==
    LET form == Get(p, "form", JNull)
    IN  IF form = JNull \/ form = <<>> THEN 0
        ELSE IF FloatOk(form) THEN FloatHundredths(form)
        ELSE 0

\* p["points_per_cost"]: total_points / (cost / 10) if cost else 0; in
\* ten-thousandths
PointsPerCost(p) ==
    LET cost == Get(p, "now_cost", 0)
    IN  IF cost # 0 THEN (Get(p, "total_points", 0) * 100000) \div cost ELSE 0

\* team_fdr.get(team_id, 3.0), in hundredths
FixtureDifficultyOf(p, team_fdr) ==
    IF "team" \in DOMAIN p /\ p.team \in DOMAIN team_fdr
    THEN team_fdr[p.team] ELSE 100 * DefaultDifficulty

\* form_value * (5.5 - fixture_difficulty), in ten-thousandths
FormFixtureScore(form_value, fixture_difficulty) ==
    form_value * (550 - fixture_difficulty)

\* team_fixture_map.get(team_id, "N/A")
NextFixturesOf(p, team_fixture_map) ==
    IF "team" \in DOMAIN p /\ p.team \in DOMAIN team_fixture_map
    THEN team_fixture_map[p.team] ELSE <<[opp |-> "N/A", diff |-> 0]>>

\* the derived fields enrich_players sets on one player
EnrichOne(p, team_fdr, team_fixture_map) ==
    [points_per_cost |-> PointsPerCost(p),
     form_value |-> FormValue(p),
     fixture_difficulty |-> FixtureDifficultyOf(p, team_fdr),
     form_fixture_score |->
        FormFixtureScore(FormValue(p), FixtureDifficultyOf(p, team_fdr)),
     next_fixtures |-> NextFixturesOf(p, team_fixture_map)] @@ p

\* enrich_players(elements, team_fdr, team_fixture_map)
enrich_players(elements, team_fdr, team_fixture_map) ==
    [i \in DOMAIN elements |-> EnrichOne(elements[i], team_fdr, team_fixture_map)]

\* ------------------------------------------------------------- selection

\* POSITION_MAP
Positions == 1..4
POSITION_MAP == <<"Goalkeepers", "Defenders", "Midfielders", "Forwards">>

\* [p for p in elements if p.get("element_type") == pos_id]
PlayersIn(elements, pos_id) ==
    SelectIdx(elements, {i \in DOMAIN elements : Get(elements[i], "element_type", 0) = pos_id})

\* teams_map_short.get(p.get("team"), '?')
TeamShort(p, teams_map_short) ==
    IF "team" \in DOMAIN p /\ p.team \in DOMAIN teams_map_short
    THEN teams_map_short[p.team] ELSE "?"

\* the fixed-point scale of a metric, and round(val, round_digits) on it
MetricScale(metric) ==
    CASE metric \in {"points_per_cost", "form_fixture_score", "watch_score", "score"} -> 10000
      [] metric \in {"form_value", "fixture_difficulty"} -> 100
      [] OTHER -> 1
Pow10(d) == IF d = 0 THEN 1 ELSE IF d = 1 THEN 10 ELSE 100
RoundDigits(val, metric, round_digits) ==
    RoundTo(val, Max2(1, MetricScale(metric) \div Pow10(round_digits)))

\* (form_fixture_score * 2) + points_per_cost
WatchScore(p) ==
    Get(p, "form_fixture_score", 0) * 2 + Get(p, "points_per_cost", 0)

\* the loop "for p in players: p['watch_score'] = ..." over the four
\* positions: every player of a position gets the field, in place
MarkWatchScores(elements) ==
    [i \in DOMAIN elements |->
        IF Get(elements[i], "element_type", 0) \in Positions
        THEN [watch_score |-> WatchScore(elements[i])] @@
             [k \in DOMAIN elements[i] \ {"watch_score"} |-> elements[i][k]]
        ELSE elements[i]]

\* top_watch of build_watchlist for one position
TopWatch(elements, pos_id) ==
    Take(SortedByDesc(PlayersIn(MarkWatchScores(elements), pos_id), "watch_score"), TopThree)

\* the two lines build_watchlist renders for the player ranked i
WatchLines(p, i, teams_map_short) ==
    <<[t |-> "watch", rank |-> i, web_name |-> Get(p, "web_name", "N/A"),
       team |-> TeamShort(p, teams_map_short), now_cost |-> Get(p, "now_cost", 0),
       owned |-> Get(p, "selected_by_percent", <<"0">>),
       form |-> RoundDigits(Get(p, "form_value", 0), "form_value", 2),
       fdr |-> Get(p, "fixture_difficulty", 100 * DefaultDifficulty)],
      [t |-> "next3", fixtures |-> Get(p, "next_fixtures", <<[opp |-> "N/A", diff |-> 0]>>)]>>

\* "None": the marker of an empty list
NoneMarker == [t |-> "None"]

\* one "*{pos_name}:*\n{watch_text}" section of build_watchlist
WatchSection(elements, pos_id, teams_map_short) ==
    LET top_watch == TopWatch(elements, pos_id)
        lines == Flatten([i \in DOMAIN top_watch |->
                            WatchLines(top_watch[i], i, teams_map_short)])
    IN  <<[t |-> "title", text |-> POSITION_MAP[pos_id]]>>
        \o (IF lines # <<>> THEN lines ELSE <<NoneMarker>>)

\* build_watchlist(elements, teams_map_short): the joined sections
build_watchlist(elements, teams_map_short) ==
    Flatten([pos_id \in Positions |-> WatchSection(elements, pos_id, teams_map_short)])

\* one ranked list as the run records it
Ranked(fn, pos_id, name, metric, limit, list) ==
    [fn |-> fn, pos |-> pos_id, name |-> name, metric |-> metric,
     limit |-> limit, list |-> list]

\* the ranked lists build_watchlist computes, in order
WatchlistRanked(elements) ==
    [pos_id \in Positions |->
        Ranked("build_watchlist", pos_id, "watchlist", "watch_score", TopThree,
               TopWatch(elements, pos_id))]

\* float(p.get("selected_by_percent", 0)) raises: TypeError on null,
\* ValueError on a string that is no number; an absent field is 0
OwnershipRaises(p) ==
    "selected_by_percent" \in DOMAIN p /\ ~FloatOk(p.selected_by_percent)

\* float(p.get("selected_by_percent", 0)) in hundredths
Ownership(p) ==
    IF "selected_by_percent" \in DOMAIN p THEN FloatHundredths(p.selected_by_percent) ELSE 0

\* diffs = [p for p in players if float(p.get("selected_by_percent", 0)) < 10]
Differentials(players) ==
    SelectIdx(players, {i \in DOMAIN players : Ownership(players[i]) < 1000})

\* the six lists of summarize_players: title, metric, round_digits,
\* show_fixtures, slice, and whether the candidates are the differentials
SummaryLists ==
    <<[title |-> "Top 5 Transfers IN (This GW)", name |-> "top_in",
       metric |-> "transfers_in_event", round_digits |-> 0, show_fixtures |-> FALSE,
       limit |-> TopFive, differential |-> FALSE],
      [title |-> "Top 5 Transfers OUT (This GW)", name |-> "top_out",
       metric |-> "transfers_out_event", round_digits |-> 0, show_fixtures |-> FALSE,
       limit |-> TopFive, differential |-> FALSE],
      [title |-> "Top 10 Points/Cost Value", name |-> "top_value",
       metric |-> "points_per_cost", round_digits |-> 2, show_fixtures |-> TRUE,
       limit |-> TopTen, differential |-> FALSE],
      [title |-> "Top 5 Form Players", name |-> "top_form",
       metric |-> "form_value", round_digits |-> 2, show_fixtures |-> TRUE,
       limit |-> TopFive, differential |-> FALSE],
      [title |-> "Top 5 Differentials (<10% Ownership)", name |-> "top_diff",
       metric |-> "total_points", round_digits |-> 0, show_fixtures |-> TRUE,
       limit |-> TopFive, differential |-> TRUE],
      [title |-> "Top 5 Form + Fixture Rating", name |-> "top_fixture_form",
       metric |-> "form_fixture_score", round_digits |-> 2, show_fixtures |-> TRUE,
       limit |-> TopFive, differential |-> FALSE]>>

\* sorted(candidates, key=lambda x: x.get(metric, 0), reverse=True)[:limit]
TopList(elements, pos_id, l) ==
    LET players == PlayersIn(elements, pos_id)
        candidates == IF l.differential THEN Differentials(players) ELSE players
    IN  Take(SortedByDesc(candidates, l.metric), l.limit)

\* one player line of fmt
FmtLine(p, i, metric, round_digits, show_fixtures, teams_map_short) ==
    LET line == [t |-> "line", rank |-> i, web_name |-> Get(p, "web_name", "N/A"),
                 team |-> TeamShort(p, teams_map_short),
                 val |-> RoundDigits(Get(p, metric, 0), metric, round_digits),
                 pts |-> Get(p, "total_points", 0)]
    IN  IF show_fixtures
        THEN line @@ [fixtures |-> Get(p, "next_fixtures", <<[opp |-> "N/A", diff |-> 0]>>)]
        ELSE line

\* mutant: an empty list renders its title and nothing else
fmt_BlankWhenEmpty(title, data, metric, round_digits, show_fixtures, teams_map_short) ==
    <<[t |-> "title", text |-> title]>>
    \o [i \in DOMAIN data |->
          FmtLine(data[i], i, metric, round_digits, show_fixtures, teams_map_short)]

\* fmt(title, data, metric, round_digits, show_fixtures): the section title,
\* then "None" for an empty list, else one line per player
fmt(title, data, metric, round_digits, show_fixtures, teams_map_short) ==
    <<[t |-> "title", text |-> title]>>
    \o (IF data = <<>> THEN <<NoneMarker>>
        ELSE [i \in DOMAIN data |->
                FmtLine(data[i], i, metric, round_digits, show_fixtures, teams_map_short)])

\* the section summarize_players assembles for one position
PositionSection(elements, pos_id, teams_map_short) ==
    <<[t |-> "analysis", text |-> POSITION_MAP[pos_id]]>>
    \o Flatten([k \in DOMAIN SummaryLists |->
                  LET l == SummaryLists[k]
                  IN  fmt(l.title, TopList(elements, pos_id, l), l.metric,
                          l.round_digits, l.show_fixtures, teams_map_short)])

\* summarize_players raises when the differential filter meets a player of
\* one of the four positions whose selected_by_percent float() rejects
SummarizeRaises(elements) ==
    \E i \in DOMAIN elements :
        /\ Get(elements[i], "element_type", 0) \in Positions
        /\ OwnershipRaises(elements[i])

\* summarize_players(elements, teams_map_short): the list of four sections
summarize_players(elements, teams_map_short) ==
    [pos_id \in Positions |-> PositionSection(elements, pos_id, teams_map_short)]

\* the ranked lists summarize_players computes, in order
SummaryRanked(elements) ==
    Flatten([pos_id \in Positions |->
        [k \in DOMAIN SummaryLists |->
            Ranked("summarize_players", pos_id, SummaryLists[k].name,
                   SummaryLists[k].metric, SummaryLists[k].limit,
                   TopList(elements, pos_id, SummaryLists[k]))]])

\* ------------------------------------------------------------- captaincy

\* next_gw_id = current_gw_id + 1 raises TypeError when the event had no id
CaptaincyRaises(gw) == "gw_id" \notin DOMAIN gw

\* the fixtures of the gameweek whose two teams are both known
GwFixtures(team_data_map, fixtures, gw_id) ==
    SelectIdx(fixtures,
        {i \in DOMAIN fixtures :
            /\ "event" \in DOMAIN fixtures[i] /\ fixtures[i].event = gw_id
            /\ fixtures[i].team_h \in DOMAIN team_data_map
            /\ fixtures[i].team_a \in DOMAIN team_data_map})

\* the home and the away candidate of one fixture: strength of the side plus
\* (6 - the opposing strength of the other side)
Candidates(team_data_map, f, mine, theirs) ==
    <<[team_id |-> f.team_h, opponent_id |-> f.team_a, venue |-> "(H)",
       score |-> team_data_map[f.team_h][mine] + (60000 - team_data_map[f.team_a][theirs])],
      [team_id |-> f.team_a, opponent_id |-> f.team_h, venue |-> "(A)",
       score |-> team_data_map[f.team_a][mine] + (60000 - team_data_map[f.team_h][theirs])]>>

\* sorted(candidates, key=score, reverse=True)[:3] and its rendered lines
TopFixtures(team_data_map, fixtures, gw_id, mine, theirs) ==
    LET next_fixtures == GwFixtures(team_data_map, fixtures, gw_id)
        all == Flatten([i \in DOMAIN next_fixtures |->
                          Candidates(team_data_map, next_fixtures[i], mine, theirs)])
    IN  Take(SortedByDesc(all, "score"), TopThree)

CaptainLines(team_data_map, top) ==
    [i \in DOMAIN top |->
        [t |-> "fixture", rank |-> i,
         team |-> team_data_map[top[i].team_id].short_name, venue |-> top[i].venue,
         opp |-> team_data_map[top[i].opponent_id].short_name,
         score |-> RoundDigits(top[i].score, "score", 2)]]

\* get_captaincy_picks(team_data_map, fixtures, current_gw_id)
get_captaincy_picks(team_data_map, fixtures, gw_id) ==
    <<[t |-> "title", text |-> "Captaincy & Transfer Targets", gw |-> gw_id],
      [t |-> "title", text |-> "Top 3 Attacking Fixtures"]>>
    \o CaptainLines(team_data_map,
           TopFixtures(team_data_map, fixtures, gw_id, "attack_strength", "defence_strength"))
    \o <<[t |-> "title", text |-> "Top 3 Defensive Fixtures"]>>
    \o CaptainLines(team_data_map,
           TopFixtures(team_data_map, fixtures, gw_id, "defence_strength", "attack_strength"))

\* ------------------------------------------------------------- squad

\* get_my_team_picks on the fetched value: None when the fetch gave nothing
\* or the body has no picks (or a pick has no element: the broad except),
\* else the set of element ids
get_my_team_picks(fetched) ==
    IF Falsy(fetched) \/ "picks" \notin DOMAIN fetched.json THEN None
    ELSE IF \E i \in DOMAIN fetched.json.picks : "element" \notin DOMAIN fetched.json.picks[i]
         THEN None
    ELSE Some({fetched.json.picks[i].element : i \in DOMAIN fetched.json.picks})

\* not my_picks: None or the empty set
NoPicks(my_picks) == my_picks.none \/ my_picks.json = {}

\* get_team_summary on the fetched value: the summary block, or the fixed
\* apology when there is no data
get_team_summary(fetched) ==
    IF Falsy(fetched) THEN <<[t |-> "title", text |-> "Could not fetch your team summary."]>>
    ELSE <<[t |-> "team", name |-> Get(fetched.json, "name", "N/A"),
            rank |-> Get(fetched.json, "summary_overall_rank", "N/A"),
            points |-> Get(fetched.json, "summary_overall_points", "N/A"),
            transfers |-> Get(fetched.json, "last_deadline_total_transfers", "N/A")]>>

\* my_squad = [p for p in elements if p.get("id") in my_picks]
MySquad(picks, elements) ==
    SelectIdx(elements, {i \in DOMAIN elements :
                            "id" \in DOMAIN elements[i] /\ elements[i].id \in picks})

\* top_watch of get_personal_analysis for one position.  The key of the sort
\* is "lambda x: p.get('watch_score', 0)": it reads the loop variable p, the
\* last player of players_in_pos, and not its argument x, so every
\* candidate has the same key.
PersonalTopWatch(picks, elements, pos_id) ==
    LET players_in_pos == PlayersIn(MarkWatchScores(elements), pos_id)
        candidates == SelectIdx(players_in_pos,
                          {i \in DOMAIN players_in_pos : players_in_pos[i].id \notin picks})
        p == players_in_pos[Len(players_in_pos)]
        keys == [i \in DOMAIN candidates |-> Get(p, "watch_score", 0)]
    IN  Take(Permute(candidates, SortedIdxDesc(keys)), TopThree)

\* the captaincy block: the squad player with the highest form_fixture_score
CaptainText(my_squad, teams_map_short) ==
    LET best_candidate == SortedByDesc(my_squad, "form_fixture_score")[1]
    IN  <<[t |-> "captain", web_name |-> Get(best_candidate, "web_name", "N/A"),
           team |-> TeamShort(best_candidate, teams_map_short),
           score |-> RoundDigits(Get(best_candidate, "form_fixture_score", 0),
                                 "form_fixture_score", 2),
           fixtures |-> Get(best_candidate, "next_fixtures", <<[opp |-> "N/A", diff |-> 0]>>)]>>

\* the transfer suggestion of one position: sell the weakest active squad
\* player for the first buy candidate when its form_fixture_score is more
\* than 1.0 higher
TransferSuggestion(picks, my_squad, elements, pos_id, teams_map_short) ==
    LET squad_pos == PlayersIn(my_squad, pos_id)
        active_squad_pos ==
            SelectIdx(squad_pos, {i \in DOMAIN squad_pos : Get(squad_pos[i], "total_points", 0) > 0})
        weakest_players == SortedByAsc(active_squad_pos, "form_fixture_score")
        top_buy_candidates == PersonalTopWatch(picks, elements, pos_id)
    IN  IF weakest_players = <<>> \/ top_buy_candidates = <<>> THEN <<>>
        ELSE LET player_to_sell == weakest_players[1]
                 player_to_buy == top_buy_candidates[1]
                 sell_score == Get(player_to_sell, "form_fixture_score", 0)
                 buy_score == Get(player_to_buy, "form_fixture_score", 0)
             IN  IF buy_score > sell_score + 10000
                 THEN <<[t |-> "transfer", pos |-> POSITION_MAP[pos_id],
                         sell |-> Get(player_to_sell, "web_name", "N/A"),
                         sell_team |-> TeamShort(player_to_sell, teams_map_short),
                         sell_score |-> RoundDigits(sell_score, "form_fixture_score", 2),
                         buy |-> Get(player_to_buy, "web_name", "N/A"),
                         buy_team |-> TeamShort(player_to_buy, teams_map_short),
                         buy_score |-> RoundDigits(buy_score, "form_fixture_score", 2)]>>
                 ELSE <<>>

\* get_personal_analysis(my_picks, elements, teams_map_short)
get_personal_analysis(my_picks, elements, teams_map_short) ==
    IF NoPicks(my_picks)
    THEN <<[t |-> "title", text |-> "FPL Team ID not set or team data unavailable."]>>
    ELSE LET my_squad == MySquad(my_picks.json, elements)
             transfer_suggestions ==
                 Flatten([pos_id \in Positions |->
                     TransferSuggestion(my_picks.json, my_squad, elements, pos_id,
                                        teams_map_short)])
         IN  IF my_squad = <<>>
             THEN <<[t |-> "title", text |-> "No players found matching your squad."]>>
             ELSE <<[t |-> "title", text |-> "Your Captaincy Suggestion (GW Next):"]>>
                  \o CaptainText(my_squad, teams_map_short)
                  \o <<[t |-> "title", text |-> "Transfer Suggestions (Sell Weakest Player):"]>>
                  \o (IF transfer_suggestions # <<>> THEN transfer_suggestions
                      ELSE <<[t |-> "title", text |-> "No strong transfer calls."]>>)

\* get_personal_analysis reaches its watch_score loop only with a squad
PersonalMarks(my_picks, elements) ==
    ~NoPicks(my_picks) /\ MySquad(my_picks.json, elements) # <<>>

\* the ranked lists get_personal_analysis computes (watchlist_by_pos)
PersonalRanked(my_picks, elements) ==
    IF ~PersonalMarks(my_picks, elements) THEN <<>>
    ELSE [pos_id \in Positions |->
            Ranked("get_personal_analysis", pos_id, "watchlist_by_pos", "watch_score",
                   TopThree, PersonalTopWatch(my_picks.json, elements, pos_id))]

\* chunk1 of run_daily_digest: header, team summary, captaincy, personal
\* analysis and watchlist, in that order, around the fixed separators
Chunk1(header, team_summary, captaincy_picks, personal_analysis, watchlist_text) ==
    header \o team_summary \o captaincy_picks \o personal_analysis
    \o <<[t |-> "title", text |-> "High-Priority Watchlist (Top 3 by Position)"]>>
    \o watchlist_text
    \o <<[t |-> "title", text |-> "Detailed Player Statistics will follow in separate messages."]>>

\* the header block: gameweek name, deadline and the time remaining
Header(gw) ==
    <<[t |-> "header", gw_name |-> gw.gw_name, deadline |-> gw.deadline]>>

\* ------------------------------------------------------------- inputs

\* teams of the bulk data: one with everything, one with a name only, one
\* with neither name
Team1 == [id |-> 1, short_name |-> "ARS", name |-> "Arsenal",
          strength_attack_home |-> 1300, strength_attack_away |-> 1250,
          strength_defence_home |-> 1350, strength_defence_away |-> 1300]
Team2 == [id |-> 2, name |-> "Chelsea",
          strength_attack_home |-> 1200, strength_attack_away |-> 1150]
Team3 == [id |-> 3]
Teams == <<Team1, Team2, Team3>>

\* events of the bulk data
DeadlineZ == <<"2025-08-22", "T", "17:30:00", "Z">>
EvFinished == [id |-> 1, name |-> "Gameweek 1", finished |-> TRUE,
               deadline_time |-> <<"2025-08-15", "T", "17:30:00", "Z">>]
EvNext == [id |-> 2, name |-> "Gameweek 2", finished |-> FALSE, deadline_time |-> DeadlineZ]
EvLater == [id |-> 3, name |-> "Gameweek 3", finished |-> FALSE,
            deadline_time |-> <<"2025-08-29", "T", "10:00:00", "+01:00">>]
EvNoFlag == [id |-> 2, name |-> "Gameweek 2", deadline_time |-> DeadlineZ]
EvNoId == [name |-> "Gameweek 2", finished |-> FALSE, deadline_time |-> DeadlineZ]
EvMalformed == [id |-> 2, name |-> "Gameweek 2", finished |-> FALSE,
                deadline_time |-> <<"soon">>]
EvEmptyDeadline == [id |-> 2, finished |-> FALSE, deadline_time |-> <<>>]
EvNoDeadline == [id |-> 2, name |-> "Gameweek 2", finished |-> FALSE]
EvNullDeadline == [id |-> 2, name |-> "Gameweek 2", finished |-> FALSE,
                   deadline_time |-> JNull]

EventLists ==
    {<<>>, <<EvFinished>>, <<EvFinished, EvNoFlag>>, <<EvFinished, EvNext, EvLater>>,
     <<EvMalformed, EvLater>>, <<EvEmptyDeadline>>, <<EvNoDeadline>>,
     <<EvFinished, EvNullDeadline>>, <<EvNoId>>}

\* fixtures
Fx12 == [event |-> 2, team_h |-> 1, team_a |-> 2, finished |-> FALSE,
         team_h_difficulty |-> 2, team_a_difficulty |-> 4]
Fx23 == [event |-> 2, team_h |-> 2, team_a |-> 3, team_h_difficulty |-> 3]
Fx31 == [event |-> 3, team_h |-> 3, team_a |-> 1, finished |-> FALSE,
         team_h_difficulty |-> 5, team_a_difficulty |-> 1]
Fx21Done == [event |-> 1, team_h |-> 2, team_a |-> 1, finished |-> TRUE,
             team_h_difficulty |-> 4, team_a_difficulty |-> 2]
\* a fixture of a team the teams list does not hold
Fx14 == [event |-> 3, team_h |-> 1, team_a |-> 4, finished |-> FALSE,
         team_h_difficulty |-> 2, team_a_difficulty |-> 5]

FixtureLists == {<<>>, <<Fx21Done, Fx31, Fx12, Fx23>>, <<Fx12, Fx14>>}

\* players
Raya == [id |-> 1, web_name |-> "Raya", team |-> 1, element_type |-> 1,
         now_cost |-> 50, total_points |-> 30, form |-> <<"4", ".", "5">>,
         selected_by_percent |-> <<"2", "5", ".", "0">>,
         transfers_in_event |-> 7, transfers_out_event |-> 2]
Saka == [id |-> 2, web_name |-> "Saka", team |-> 1, element_type |-> 3,
         now_cost |-> 100, total_points |-> 40, form |-> <<"6", ".", "0">>,
         selected_by_percent |-> <<"5", ".", "5">>,
         transfers_in_event |-> 9, transfers_out_event |-> 1]
Palmer == [id |-> 3, web_name |-> "Palmer", team |-> 2, element_type |-> 3,
           now_cost |-> 125, total_points |-> 55, form |-> <<"6", ".", "0">>,
           selected_by_percent |-> <<"9", ".", "9">>,
           transfers_in_event |-> 9, transfers_out_event |-> 4]
\* a player with no cost, no team and no ownership figure
Trialist == [id |-> 4, web_name |-> "Trialist", element_type |-> 4, now_cost |-> 0,
             total_points |-> 0, form |-> <<"0", ".", "0">>]
\* players whose string-encoded numbers do not parse
FormText == [Saka EXCEPT !.form = <<"n", "/", "a">>]
FormNull == [Saka EXCEPT !.form = JNull]
FormAbsent == [k \in DOMAIN Saka \ {"form"} |-> Saka[k]]
FormEmpty == [Saka EXCEPT !.form = <<>>]
OwnedText == [Palmer EXCEPT !.selected_by_percent = <<"n", "/", "a">>]
OwnedNull == [Palmer EXCEPT !.selected_by_percent = JNull]
OwnedEmpty == [Palmer EXCEPT !.selected_by_percent = <<>>]

ElementLists ==
    {<<>>, <<Raya, Saka, Palmer, Trialist>>,
     <<Raya, FormText, Palmer>>, <<FormNull, Palmer>>, <<FormAbsent>>, <<FormEmpty, Raya>>,
     <<Raya, Saka, OwnedText>>, <<OwnedNull, Saka>>, <<OwnedEmpty>>}

\* the bodies the three endpoints may return with status 200
BootstrapBodies ==
    {<<>>} \cup {[events |-> ev, teams |-> Teams, elements |-> el] :
                    ev \in EventLists, el \in ElementLists}
PicksBodies ==
    {<<>>, [detail |-> "Authentication credentials were not provided."],
     [picks |-> <<[element |-> 2], [element |-> 3]>>], [picks |-> <<[element |-> 9]>>]}
EntryBodies ==
    {<<>>, [name |-> "My XI", summary_overall_rank |-> "1024",
            summary_overall_points |-> "130", last_deadline_total_transfers |-> "1"]}

\* ------------------------------------------------------------- state

VARIABLES
    TELEGRAM_TOKEN,      \* os.getenv("TELEGRAM_TOKEN"): unset, empty or set
    CHAT_ID,             \* os.getenv("CHAT_ID")
    pc,                  \* the next step of run_daily_digest
    outcome,             \* "running", "exit0", "exit1" (sys.exit(1)) or "raised"
    http,                \* every HTTP call attempted, in order
    documents,           \* every text handed to send_telegram_message, in order
    data,                \* get_fpl_data()
    fixtures,            \* get_fixtures()
    gw,                  \* gw_name, gw_id, deadline of get_next_deadline
    team_data_map, team_fdr, team_fixture_map,
    elements,            \* the enriched players
    my_picks, header, team_summary,
    watchlist_text, captaincy_picks, personal_analysis, position_summaries,
    ranked,              \* every ranked list computed, in order
    section_idx          \* sections sent by the loop over position_summaries

env == <<TELEGRAM_TOKEN, CHAT_ID>>
fetched == <<data, fixtures>>
metrics == <<gw, team_data_map, team_fdr, team_fixture_map>>
squad == <<my_picks, header, team_summary>>
texts == <<watchlist_text, captaincy_picks, personal_analysis, position_summaries>>
vars == <<env, pc, outcome, http, documents, fetched, metrics, elements, squad,
          texts, ranked, section_idx>>

\* the locals of run_daily_digest before their assignment
NoLocals ==
    /\ data = None /\ fixtures = None /\ gw = <<>>
    /\ team_data_map = <<>> /\ team_fdr = <<>> /\ team_fixture_map = <<>>
    /\ elements = <<>> /\ my_picks = None /\ header = <<>> /\ team_summary = <<>>
    /\ watchlist_text = <<>> /\ captaincy_picks = <<>> /\ personal_analysis = <<>>
    /\ position_summaries = <<>> /\ ranked = <<>> /\ section_idx = 0

Init ==
    /\ TELEGRAM_TOKEN \in EnvValues
    /\ CHAT_ID \in EnvValues
    /\ pc = "config"
    /\ outcome = "running"
    /\ http = <<>>
    /\ documents = <<>>
    /\ NoLocals

\* a step of the run ends it: return (exit 0), sys.exit(1), or an exception
\* nothing catches
Finish(how) == pc' = "done" /\ outcome' = how
Goto(step) == pc' = step /\ UNCHANGED outcome

\* mutant: only the token is checked
ConfigMissing_TokenOnly(token, chat) == EnvFalsy(token)

\* not TELEGRAM_TOKEN or not CHAT_ID
ConfigMissing(token, chat) == EnvFalsy(token) \/ EnvFalsy(chat)

\* lines 478-480: without the credentials, sys.exit(1)
CheckConfig ==
    /\ pc = "config"
    /\ IF ConfigMissing(TELEGRAM_TOKEN, CHAT_ID) THEN Finish("exit1")
       ELSE Goto("get_fpl_data")
    /\ UNCHANGED <<env, http, documents, fetched, metrics, elements, squad, texts,
                   ranked, section_idx>>

\* one requests.get as the log keeps it
GetCall(url, resp) ==
    [method |-> "GET", url |-> url, kind |-> resp.kind,
     code |-> IF resp.kind \in TransportOutcomes THEN 0 ELSE resp.code]

\* line 485: data = get_fpl_data()
GetFplData ==
    /\ pc = "get_fpl_data"
    /\ \E resp \in Responses(BootstrapBodies) :
        /\ data' = safe_fetch_json(resp)
        /\ http' = Append(http, GetCall("bootstrap-static", resp))
    /\ Goto("get_fixtures")
    /\ UNCHANGED <<env, documents, fixtures, metrics, elements, squad, texts,
                   ranked, section_idx>>

\* line 486: fixtures = get_fixtures()
GetFixtures ==
    /\ pc = "get_fixtures"
    /\ \E resp \in Responses(FixtureLists) :
        /\ fixtures' = safe_fetch_json(resp)
        /\ http' = Append(http, GetCall("fixtures", resp))
    /\ Goto("check_data")
    /\ UNCHANGED <<env, documents, data, metrics, elements, squad, texts,
                   ranked, section_idx>>

\* not data or not fixtures
DataMissing(d, f) == Falsy(d) \/ Falsy(f)

\* lines 488-490: return when either is falsy
CheckData ==
    /\ pc = "check_data"
    /\ IF DataMissing(data, fixtures) THEN Finish("exit0") ELSE Goto("deadline")
    /\ UNCHANGED <<env, http, documents, fetched, metrics, elements, squad, texts,
                   ranked, section_idx>>

\* lines 492-495: the next deadline, or return when there is none
NextDeadline ==
    /\ pc = "deadline"
    /\ LET r == get_next_deadline(Get(data.json, "events", <<>>))
       IN  IF r.raised THEN Finish("raised") /\ UNCHANGED gw
           ELSE IF ~r.found THEN Finish("exit0") /\ UNCHANGED gw
           ELSE Goto("metrics") /\ gw' = r
    /\ UNCHANGED <<env, http, documents, fetched, team_data_map, team_fdr,
                   team_fixture_map, elements, squad, texts, ranked, section_idx>>

\* teams_map_short = {t_id: d["short_name"] ...}
TeamsMapShort(tdm) == [t \in DOMAIN tdm |-> tdm[t].short_name]

\* lines 497-508: team maps, FDR, fixture map, enrichment
ComputeMetrics ==
    /\ pc = "metrics"
    /\ LET teams == Get(data.json, "teams", <<>>)
           tdm == get_team_data_map(teams)
           fdr == calculate_fixture_difficulty(fixtures.json, teams)
       IN  IF FixtureMapRaises(fixtures.json, TeamsMapShort(tdm))
           THEN /\ Finish("raised")
                /\ team_data_map' = tdm /\ team_fdr' = fdr
                /\ UNCHANGED <<team_fixture_map, elements>>
           ELSE /\ Goto("picks")
                /\ team_data_map' = tdm /\ team_fdr' = fdr
                /\ team_fixture_map' = build_fixture_map(fixtures.json, TeamsMapShort(tdm))
                /\ elements' = enrich_players(Get(data.json, "elements", <<>>), fdr,
                                   build_fixture_map(fixtures.json, TeamsMapShort(tdm)))
    /\ UNCHANGED <<env, http, documents, fetched, gw, squad, texts, ranked, section_idx>>

\* line 511: my_picks = get_my_team_picks(fpl_team_id_str)
GetMyTeamPicks ==
    /\ pc = "picks"
    /\ \E resp \in Responses(PicksBodies) :
        /\ my_picks' = get_my_team_picks(safe_fetch_json(resp))
        /\ http' = Append(http, GetCall("my-team", resp))
    /\ Goto("team_summary")
    /\ UNCHANGED <<env, documents, fetched, metrics, elements, header, team_summary,
                   texts, ranked, section_idx>>

\* lines 513-526: the header, then team_summary = get_team_summary(...)
GetTeamSummary ==
    /\ pc = "team_summary"
    /\ header' = Header(gw)
    /\ \E resp \in Responses(EntryBodies) :
        /\ team_summary' = get_team_summary(safe_fetch_json(resp))
        /\ http' = Append(http, GetCall("entry", resp))
    /\ Goto("watchlist")
    /\ UNCHANGED <<env, documents, fetched, metrics, elements, my_picks, texts,
                   ranked, section_idx>>

\* line 527: watchlist_text = build_watchlist(elements, teams_map_short)
BuildWatchlist ==
    /\ pc = "watchlist"
    /\ watchlist_text' = build_watchlist(elements, TeamsMapShort(team_data_map))
    /\ ranked' = ranked \o WatchlistRanked(elements)
    /\ elements' = MarkWatchScores(elements)
    /\ Goto("captaincy")
    /\ UNCHANGED <<env, http, documents, fetched, metrics, squad, captaincy_picks,
                   personal_analysis, position_summaries, section_idx>>

\* line 530: captaincy_picks = get_captaincy_picks(team_data_map, fixtures, gw_id)
GetCaptaincyPicks ==
    /\ pc = "captaincy"
    /\ IF CaptaincyRaises(gw)
       THEN Finish("raised") /\ UNCHANGED captaincy_picks
       ELSE /\ Goto("personal")
            /\ captaincy_picks' = get_captaincy_picks(team_data_map, fixtures.json, gw.gw_id)
    /\ UNCHANGED <<env, http, documents, fetched, metrics, elements, squad,
                   watchlist_text, personal_analysis, position_summaries, ranked,
                   section_idx>>

\* line 532: personal_analysis = get_personal_analysis(my_picks, elements, ...)
GetPersonalAnalysis ==
    /\ pc = "personal"
    /\ personal_analysis' =
           get_personal_analysis(my_picks, elements, TeamsMapShort(team_data_map))
    /\ ranked' = ranked \o PersonalRanked(my_picks, elements)
    /\ elements' = IF PersonalMarks(my_picks, elements) THEN MarkWatchScores(elements)
                   ELSE elements
    /\ Goto("summarize")
    /\ UNCHANGED <<env, http, documents, fetched, metrics, squad, watchlist_text,
                   captaincy_picks, position_summaries, section_idx>>

\* line 535: position_summaries = summarize_players(elements, teams_map_short)
SummarizePlayers ==
    /\ pc = "summarize"
    /\ IF SummarizeRaises(elements)
       THEN Finish("raised") /\ UNCHANGED <<position_summaries, ranked>>
       ELSE /\ Goto("send_chunk1")
            /\ position_summaries' =
                   summarize_players(elements, TeamsMapShort(team_data_map))
            /\ ranked' = ranked \o SummaryRanked(elements)
    /\ UNCHANGED <<env, http, documents, fetched, metrics, elements, squad,
                   watchlist_text, captaincy_picks, personal_analysis, section_idx>>

\* the responses of the chat endpoint to one POST
PostResponses ==
    [kind : TransportOutcomes] \cup {[kind |-> "status", code |-> c] : c \in StatusCodes}

\* requests.post(...) then raise_for_status() raised a RequestException
PostFailed(resp) ==
    resp.kind \in TransportOutcomes \/ RaisesForStatus(resp.code)

\* the exception one POST raises: Timeout or ConnectionError from
\* requests.post, HTTPError from raise_for_status, or none
PostException(resp) ==
    IF resp.kind \in TransportOutcomes THEN resp.kind
    ELSE IF RaisesForStatus(resp.code) THEN "http_error"
    ELSE "none"

\* mutant: the handler names the transport errors only
CaughtBySend_TransportOnly == {"timeout", "connection_error"}

\* except requests.exceptions.RequestException: every exception of requests
CaughtBySend == {"timeout", "connection_error", "http_error"}

\* the exception leaves send_telegram_message
SendEscapes(resp) ==
    PostException(resp) # "none" /\ PostException(resp) \notin CaughtBySend

\* send_telegram_message(text): the text cut to the limit is POSTed once,
\* unless a credential is missing; a failure is logged and swallowed
send_telegram_message(log, text, resp) ==
    IF ConfigMissing(TELEGRAM_TOKEN, CHAT_ID) THEN log
    ELSE Append(log, [method |-> "POST", url |-> "sendMessage",
                      text |-> clean_and_limit_text(text, TelegramLimit),
                      ok |-> ~PostFailed(resp)])

\* lines 539-548: chunk1 is composed and sent
SendChunk1 ==
    /\ pc = "send_chunk1"
    /\ LET chunk1 == Chunk1(header, team_summary, captaincy_picks, personal_analysis,
                            watchlist_text)
       IN  /\ documents' = Append(documents, chunk1)
           /\ \E resp \in PostResponses :
                /\ http' = send_telegram_message(http, chunk1, resp)
                /\ IF SendEscapes(resp) THEN Finish("raised") ELSE Goto("send_sections")
    /\ UNCHANGED <<env, fetched, metrics, elements, squad, texts, ranked, section_idx>>

\* mutant: the loop walks position_summaries from its end
SectionAt_Reversed(summaries, idx) == summaries[Len(summaries) - idx]

\* for section_text in position_summaries: the section of turn idx + 1
SectionAt(summaries, idx) == summaries[idx + 1]

\* lines 551-552: one turn of the loop over position_summaries; the run
\* returns (exit 0) after the last
SendSection ==
    /\ pc = "send_sections"
    /\ IF section_idx < Len(position_summaries)
       THEN LET section_text == SectionAt(position_summaries, section_idx)
            IN  /\ documents' = Append(documents, section_text)
                /\ \E resp \in PostResponses :
                     /\ http' = send_telegram_message(http, section_text, resp)
                     /\ IF SendEscapes(resp) THEN Finish("raised")
                        ELSE UNCHANGED <<pc, outcome>>
                /\ section_idx' = section_idx + 1
       ELSE Finish("exit0") /\ UNCHANGED <<http, documents, section_idx>>
    /\ UNCHANGED <<env, fetched, metrics, elements, squad, texts, ranked>>

Next ==
    \/ CheckConfig
    \/ GetFplData
    \/ GetFixtures
    \/ CheckData
    \/ NextDeadline
    \/ ComputeMetrics
    \/ GetMyTeamPicks
    \/ GetTeamSummary
    \/ BuildWatchlist
    \/ GetCaptaincyPicks
    \/ GetPersonalAnalysis
    \/ SummarizePlayers
    \/ SendChunk1
    \/ SendSection

Spec == Init /\ [][Next]_vars

\* ------------------------------------------------------------- properties

GetCalls == SelectIdx(http, {i \in DOMAIN http : http[i].method = "GET"})
PostCalls == SelectIdx(http, {i \in DOMAIN http : http[i].method = "POST"})

\* the steps of the run before the deadline lookup has been done
BeforeMetrics == {"config", "get_fpl_data", "get_fixtures", "check_data", "deadline"}

\* C2: when TELEGRAM_TOKEN or CHAT_ID is unset, no HTTP call (GET or POST)
\* is ever attempted, and once the credential check has run the run has
\* ended with exit code 1.
C2_NoCredentialNoHttp ==
    (TELEGRAM_TOKEN = "unset" \/ CHAT_ID = "unset") =>
        /\ http = <<>>
        /\ documents = <<>>
        /\ pc # "config" => (pc = "done" /\ outcome = "exit1")

\* C2 witness: a run with the token set and CHAT_ID unset has exited 1
C2_Witness ==
    TELEGRAM_TOKEN = "set" /\ CHAT_ID = "unset" /\ pc = "done" /\ outcome = "exit1"

\* the fetched events hold no unfinished event (a flag that is absent
\* reads as finished)
NoUnfinishedEvent ==
    /\ ~data.none
    /\ \A e \in Range(Get(data.json, "events", <<>>)) :
           "finished" \in DOMAIN e => e.finished

\* C3: when the events list holds no unfinished event, the run, once past
\* the deadline lookup, has returned normally (exit 0) with no message sent,
\* no fetch beyond the two initial ones and no enrichment done.
C3_SeasonOverAborts ==
    (NoUnfinishedEvent /\ pc \notin BeforeMetrics) =>
        /\ pc = "done" /\ outcome = "exit0"
        /\ documents = <<>> /\ PostCalls = <<>>
        /\ Len(http) = 2
        /\ elements = <<>> /\ team_fdr = <<>> /\ ranked = <<>>

\* C3 witness: both fetches gave data, the events are all finished, and the
\* run has ended
C3_Witness ==
    /\ pc = "done" /\ ~Falsy(data) /\ ~Falsy(fixtures)
    /\ NoUnfinishedEvent
    /\ Len(Get(data.json, "events", <<>>)) = 2

\* a logged GET failed: a transport error, or a status outside 2xx
GetFailed(call) == call.kind \in TransportOutcomes \/ call.code < 200 \/ call.code > 299

\* C4, first part: a failed fetch gave None and raised nothing
C4_FailedFetchIsNone ==
    /\ (Len(http) >= 1 /\ GetFailed(http[1])) => data = None
    /\ (Len(http) >= 2 /\ GetFailed(http[2])) => fixtures = None
    /\ pc \in {"get_fixtures", "check_data"} => outcome = "running"

\* C4, second part: with either of the two fetches absent, the run, once
\* past the check, has returned (exit 0) and sent nothing
C4_AbsenceAborts ==
    (Len(http) >= 2 /\ (data = None \/ fixtures = None) /\ pc # "check_data") =>
        /\ pc = "done" /\ outcome = "exit0"
        /\ documents = <<>> /\ PostCalls = <<>> /\ Len(http) = 2

\* C4, third part: the check never ends a run whose two fetches both gave
\* data
C4_PresentNeverAborted ==
    (pc = "check_data" /\ ~data.none /\ ~fixtures.none) => pc' # "done"

C4_NonEmptyNeverAborted ==
    (pc = "check_data" /\ ~data.none /\ ~fixtures.none
        /\ data.json # <<>> /\ fixtures.json # <<>>) => pc' # "done"

\* the check ends the run when a fetch gave an empty body
C4_EmptyAborts ==
    (pc = "check_data" /\ ~data.none /\ ~fixtures.none
        /\ (data.json = <<>> \/ fixtures.json = <<>>)) => pc' = "done"

Unparsable(p, field) == field \notin DOMAIN p \/ ~FloatOk(p[field])

\* the run has composed nothing that raises for another reason than a
\* player's numbers: the gameweek has an id
OnlyPlayersCanFail == gw # <<>> /\ "gw_id" \in DOMAIN gw

\* the run has reached SEND, or is still on its way there
ReachesSend == outcome # "raised"

\* C6: a player whose form or selected_by_percent is non-numeric, absent or
\* null never makes the run raise: its form_value is 0.0, enrichment and
\* selection complete, and the run still reaches SEND.
C6_ParseFailureRecovered ==
    \A i \in DOMAIN elements :
        (Unparsable(elements[i], "form") \/ Unparsable(elements[i], "selected_by_percent")) =>
            /\ Unparsable(elements[i], "form") => elements[i].form_value = 0
            /\ OnlyPlayersCanFail => ReachesSend

\* the part of C6 that holds: an unparsable form gives form_value 0.0 and
\* never raises
C6_FormRecovered ==
    \A i \in DOMAIN elements :
        Unparsable(elements[i], "form") =>
            /\ elements[i].form_value = 0
            /\ (OnlyPlayersCanFail /\ ~SummarizeRaises(elements)) => ReachesSend

\* the header message and the four position sections are composed
Composed == header # <<>> /\ Len(position_summaries) = 4

\* the five documents of a digest, in send order
Digest ==
    <<Chunk1(header, team_summary, captaincy_picks, personal_analysis, watchlist_text)>>
    \o position_summaries

\* C7: nothing is sent before the header message and the four position
\* sections are composed; a run that ends before SEND has sent nothing; and a
\* run that reaches SEND attempts the header message first, then the
\* sections of positions 1..4 in that order.
C7_ComposeThenSend ==
    /\ (documents # <<>> \/ PostCalls # <<>>) =>
            (Composed /\ pc \in {"send_sections", "done"})
    /\ (pc = "done" /\ (outcome # "exit0" \/ ~Composed)) =>
            (documents = <<>> /\ PostCalls = <<>>)
    /\ Composed =>
        /\ Len(documents) <= 5
        /\ documents = SubSeq(Digest, 1, Len(documents))
        /\ Len(PostCalls) = Len(documents)
        /\ \A k \in DOMAIN PostCalls :
               PostCalls[k].text = clean_and_limit_text(documents[k], TelegramLimit)
        /\ \A k \in 1..4 : position_summaries[k][1] =
                               [t |-> "analysis", text |-> POSITION_MAP[k]]
        /\ (pc = "done") => Len(documents) = 5

\* C7 witness: a run that sent the whole digest
C7_Witness ==
    pc = "done" /\ outcome = "exit0" /\ Len(documents) = 5 /\ elements # <<>>

\* C8: a failed POST raises nothing and stops nothing: while sending the run
\* goes on, each message is attempted once, and a run that reaches SEND ends
\* with five attempts whichever of them failed.
C8_FailedSendContinues ==
    /\ pc = "send_sections" => (outcome = "running" /\ Len(PostCalls) = 1 + section_idx)
    /\ (pc = "done" /\ Composed) => (outcome = "exit0" /\ Len(PostCalls) = 5)

\* C8 witness: the first and the third POST failed, the last one succeeded
C8_Witness ==
    /\ pc = "done" /\ Len(PostCalls) = 5
    /\ ~PostCalls[1].ok /\ ~PostCalls[3].ok /\ PostCalls[5].ok

\* the titles of a rendered text, and the tokens between the k-th title and
\* the next
TitleIdx(s) == {i \in DOMAIN s : s[i].t = "title"}
NthTitle(s, k) ==
    CHOOSE i \in TitleIdx(s) : Cardinality({j \in TitleIdx(s) : j <= i}) = k
BodyOf(s, k) ==
    LET i == NthTitle(s, k)
        later == {j \in TitleIdx(s) : j > i}
        stop == IF later = {} THEN Len(s) + 1
                ELSE CHOOSE j \in later : \A m \in later : j <= m
    IN  SubSeq(s, i + 1, stop - 1)

\* the ranked list the run recorded for a function, position and list name
RankedList(fn, pos_id, name) ==
    (CHOOSE r \in Range(ranked) : r.fn = fn /\ r.pos = pos_id /\ r.name = name).list

\* C10: for each of the 4 positions every one of the six ranked lists is
\* rendered, under its own title and in the fixed order: an empty list as
\* the marker "None", any other as one line per entry; and every position of
\* the watchlist renders its entries, or "None" when it has none.
C10_EveryListRendered ==
    /\ position_summaries # <<>> =>
        /\ Len(position_summaries) = 4
        /\ \A pos_id \in 1..4 :
            LET s == position_summaries[pos_id]
            IN  /\ Cardinality(TitleIdx(s)) = 6
                /\ \A k \in 1..6 :
                    LET list == RankedList("summarize_players", pos_id, SummaryLists[k].name)
                        body == BodyOf(s, k)
                    IN  /\ s[NthTitle(s, k)].text = SummaryLists[k].title
                        /\ body # <<>>
                        /\ list = <<>> => body = <<[t |-> "None"]>>
                        /\ list # <<>> =>
                            /\ Len(body) = Len(list)
                            /\ \A j \in DOMAIN body : body[j].t = "line" /\ body[j].rank = j
    /\ watchlist_text # <<>> =>
        /\ Cardinality(TitleIdx(watchlist_text)) = 4
        /\ \A pos_id \in 1..4 :
            LET list == RankedList("build_watchlist", pos_id, "watchlist")
                body == BodyOf(watchlist_text, pos_id)
            IN  /\ watchlist_text[NthTitle(watchlist_text, pos_id)].text = POSITION_MAP[pos_id]
                /\ list = <<>> => body = <<[t |-> "None"]>>
                /\ list # <<>> => (Len(body) = 2 * Len(list) /\ body[1].t = "watch")

\* C10 witness: the sections are composed, the goalkeepers have players but
\* no differential, and the defenders have no player at all
C10_Witness ==
    /\ position_summaries # <<>>
    /\ RankedList("summarize_players", 1, "top_in") # <<>>
    /\ RankedList("summarize_players", 1, "top_diff") = <<>>
    /\ RankedList("summarize_players", 2, "top_value") = <<>>
    /\ RankedList("build_watchlist", 2, "watchlist") = <<>>


\* ------------------------------------------------------------- SpecFdr

\* a 200 response as the GET log keeps it
GetOk(url) == GetCall(url, [kind |-> "status", code |-> 200])

\* the bulk data of the runs that start after the fetch
MidRunBody(players) ==
    [events |-> <<EvFinished, EvNext, EvLater>>, teams |-> Teams, elements |-> players]

\* the fixtures a fixtures list is drawn from: home and away sides, a
\* finished fixture, absent flags and difficulties, a team outside teams
FdrFixtureKinds == {Fx12, Fx23, Fx31, Fx21Done, Fx14}
FdrFixtureLists == UNION {[1..n -> FdrFixtureKinds] : n \in 1..MaxFixtures}

\* run_daily_digest after the deadline lookup (line 495), for the bulk data
\* MidRunBody and any non-empty fixtures list
InitFdr ==
    /\ TELEGRAM_TOKEN = "set" /\ CHAT_ID = "set"
    /\ pc = "metrics" /\ outcome = "running"
    /\ http = <<GetOk("bootstrap-static"), GetOk("fixtures")>>
    /\ documents = <<>>
    /\ data = Some(MidRunBody(<<Raya, Saka, Palmer, Trialist>>))
    /\ fixtures \in {Some(fx) : fx \in FdrFixtureLists}
    /\ gw = get_next_deadline(<<EvFinished, EvNext, EvLater>>)
    /\ team_data_map = <<>> /\ team_fdr = <<>> /\ team_fixture_map = <<>>
    /\ elements = <<>> /\ my_picks = None /\ header = <<>> /\ team_summary = <<>>
    /\ watchlist_text = <<>> /\ captaincy_picks = <<>> /\ personal_analysis = <<>>
    /\ position_summaries = <<>> /\ ranked = <<>> /\ section_idx = 0

NextFdr == ComputeMetrics

SpecFdr == InitFdr /\ [][NextFdr]_vars

\* the teams calculate_fixture_difficulty is asked about
TeamIds == {t.id : t \in Range(Get(data.json, "teams", <<>>))}

\* the unfinished fixtures of team t in the order received, and the
\* difficulty each gives t
UnfinishedOf(t) ==
    SelectIdx(fixtures.json,
              {i \in DOMAIN fixtures.json :
                  /\ ("finished" \in DOMAIN fixtures.json[i] => ~fixtures.json[i].finished)
                  /\ t \in {fixtures.json[i].team_h, fixtures.json[i].team_a}})
DifficultyFor(f, t) ==
    IF f.team_h = t
    THEN (IF "team_h_difficulty" \in DOMAIN f THEN f.team_h_difficulty ELSE 3)
    ELSE (IF "team_a_difficulty" \in DOMAIN f THEN f.team_a_difficulty ELSE 3)
FirstThree(t) ==
    LET u == UnfinishedOf(t)
    IN  [k \in 1..Min2(3, Len(u)) |-> DifficultyFor(u[k], t)]

\* C5 as stated: for every team with an unfinished fixture the rating is
\* the arithmetic mean of its first min(3, n) difficulties (n times the
\* rating equals their sum); for a team with none it is exactly 3.0.
C5_ExactMean ==
    team_fdr # <<>> =>
        \A t \in TeamIds :
            /\ t \in DOMAIN team_fdr
            /\ IF FirstThree(t) = <<>> THEN team_fdr[t] = 300
               ELSE Len(FirstThree(t)) * team_fdr[t] = 100 * SumSeq(FirstThree(t))

\* C5 (amended): for every team with an unfinished fixture the rating is
\* the arithmetic mean of its first min(3, n) difficulties rounded to two
\* decimals: the hundredth nearest to the mean; for a team with no
\* unfinished fixture it is exactly 3.0.
C5_RoundedMean ==
    team_fdr # <<>> =>
        \A t \in TeamIds :
            /\ t \in DOMAIN team_fdr
            /\ IF FirstThree(t) = <<>> THEN team_fdr[t] = 300
               ELSE 2 * Abs(Len(FirstThree(t)) * team_fdr[t] - 100 * SumSeq(FirstThree(t)))
                        <= Len(FirstThree(t))

\* C5 witness: team 1 has four unfinished fixtures, the fourth of another
\* difficulty than the mean of the first three, which is no whole number
\* of hundredths; team 2 has none
C5_Witness ==
    /\ team_fdr # <<>>
    /\ Len(UnfinishedOf(1)) = 4
    /\ SumSeq(FirstThree(1)) % 3 # 0
    /\ DifficultyFor(UnfinishedOf(1)[4], 1) * 3 # SumSeq(FirstThree(1))
    /\ UnfinishedOf(2) = <<>>
    /\ team_fdr[2] = 300


\* ------------------------------------------------------------- SpecRank

\* a midfielder owned by a quarter of the managers
Rice == [id |-> 5, web_name |-> "Rice", team |-> 3, element_type |-> 3,
         now_cost |-> 100, total_points |-> 55, form |-> <<"4", ".", "5">>,
         selected_by_percent |-> <<"2", "5", ".", "0">>,
         transfers_in_event |-> 7, transfers_out_event |-> 1]

\* the players an elements list is drawn from; ids are the places in the list
RankKinds == {Saka, Palmer, Rice, Raya}
Numbered(players) == [i \in DOMAIN players |-> [players[i] EXCEPT !.id = i]]
RankHeads == UNION {[1..n -> RankKinds] : n \in 0..MaxHead}
RankElementLists ==
    {Numbered(head \o [i \in 1..pad |-> Saka]) : head \in RankHeads, pad \in {0, PadRun}}

RankFixtures == <<Fx21Done, Fx31, Fx12, Fx23>>
RankTeamsMapShort == TeamsMapShort(get_team_data_map(Teams))

\* run_daily_digest after the team summary (line 526), for any elements
\* list of RankElementLists
InitRank ==
    /\ TELEGRAM_TOKEN = "set" /\ CHAT_ID = "set"
    /\ pc = "watchlist" /\ outcome = "running"
    /\ http = <<GetOk("bootstrap-static"), GetOk("fixtures"), GetOk("my-team"),
                GetOk("entry")>>
    /\ documents = <<>>
    /\ \E players \in RankElementLists :
        /\ data = Some(MidRunBody(players))
        /\ elements = enrich_players(players,
                          calculate_fixture_difficulty(RankFixtures, Teams),
                          build_fixture_map(RankFixtures, RankTeamsMapShort))
    /\ fixtures = Some(RankFixtures)
    /\ gw = get_next_deadline(<<EvFinished, EvNext, EvLater>>)
    /\ team_data_map = get_team_data_map(Teams)
    /\ team_fdr = calculate_fixture_difficulty(RankFixtures, Teams)
    /\ team_fixture_map = build_fixture_map(RankFixtures, RankTeamsMapShort)
    /\ my_picks = get_my_team_picks(Some([picks |-> <<[element |-> 2], [element |-> 3]>>]))
    /\ header = Header(get_next_deadline(<<EvFinished, EvNext, EvLater>>))
    /\ team_summary = get_team_summary(None)
    /\ watchlist_text = <<>> /\ captaincy_picks = <<>> /\ personal_analysis = <<>>
    /\ position_summaries = <<>> /\ ranked = <<>> /\ section_idx = 0

NextRank ==
    \/ BuildWatchlist
    \/ GetCaptaincyPicks
    \/ GetPersonalAnalysis
    \/ SummarizePlayers

SpecRank == InitRank /\ [][NextRank]_vars

\* the ranked lists of build_watchlist and summarize_players
ClaimedLists ==
    {r \in Range(ranked) : r.fn \in {"build_watchlist", "summarize_players"}}

\* the places in elements of the players a list ranks: those of its
\* position, for the differentials list those owned by under 10 %
CandidatesOf(r) ==
    {i \in DOMAIN elements :
        /\ Get(elements[i], "element_type", 0) = r.pos
        /\ r.name = "top_diff" => Ownership(elements[i]) < 1000}
KeyOf(r, i) == Get(elements[i], r.metric, 0)

\* i ranks before j: a greater metric, or an equal one met earlier
RanksBefore(r, i, j) ==
    KeyOf(r, i) > KeyOf(r, j) \/ (KeyOf(r, i) = KeyOf(r, j) /\ i < j)
PlaceOf(p) == CHOOSE i \in DOMAIN elements : elements[i].id = p.id
PlacesOf(r) == [k \in DOMAIN r.list |-> PlaceOf(r.list[k])]

\* C9: every ranked list of summarize_players and build_watchlist is the
\* first N (5, 10 for value, 3 for the watchlist) of its position's
\* candidates (for the differentials list, the players owned by under 10 %)
\* in descending order of the list's metric, players of equal metric in the
\* order of the elements list.
C9_RankedStable ==
    \A r \in ClaimedLists :
        /\ r.limit = (IF r.fn = "build_watchlist" THEN 3
                      ELSE IF r.name = "top_value" THEN 10 ELSE 5)
        /\ Len(r.list) = Min2(r.limit, Cardinality(CandidatesOf(r)))
        /\ \A k \in DOMAIN r.list :
            /\ PlacesOf(r)[k] \in CandidatesOf(r)
            /\ r.list[k] = elements[PlacesOf(r)[k]]
        /\ \A j, k \in DOMAIN r.list :
            j < k => RanksBefore(r, PlacesOf(r)[j], PlacesOf(r)[k])
        /\ \A i \in CandidatesOf(r) \ Range(PlacesOf(r)) :
            \A k \in DOMAIN r.list : RanksBefore(r, PlacesOf(r)[k], i)

\* C9 witness: the value list of a position with more than ten players is
\* cut to ten, holds two players of equal metric, and leaves out a player
\* whose metric equals that of its last entry
C9_Witness ==
    \E r \in ClaimedLists :
        /\ r.name = "top_value" /\ Len(r.list) = 10
        /\ Cardinality(CandidatesOf(r)) > 10
        /\ \E j, k \in DOMAIN r.list : j < k /\ r.list[j].points_per_cost = r.list[k].points_per_cost
        /\ \E i \in CandidatesOf(r) \ Range(PlacesOf(r)) :
              KeyOf(r, i) = KeyOf(r, PlacesOf(r)[10])
        /\ \E d \in ClaimedLists : d.name = "top_diff" /\ d.pos = r.pos /\ Len(d.list) = 5


\* ------------------------------------------------------------- SpecSend

\* a text of n characters
Chars(n) == [i \in 1..n |-> [t |-> "char", c |-> i % 10]]

\* the lengths of the documents: a short one, the lengths around the limit,
\* and one of more than twice the limit
SendLengths ==
    {1, 2 * TelegramLimit + 1} \cup ((TelegramLimit - MaxSlack)..(TelegramLimit + MaxSlack))

\* run_daily_digest after the sections are composed (line 535): the five
\* composed parts are texts of characters; the header makes chunk1 of any
\* length of SendLengths but the shortest, the first section is of any
\* length of SendLengths
InitSend ==
    /\ TELEGRAM_TOKEN = "set" /\ CHAT_ID = "set"
    /\ pc = "send_chunk1" /\ outcome = "running"
    /\ http = <<GetOk("bootstrap-static"), GetOk("fixtures"), GetOk("my-team"),
                GetOk("entry")>>
    /\ documents = <<>>
    /\ data = Some(MidRunBody(<<>>))
    /\ fixtures = Some(RankFixtures)
    /\ gw = get_next_deadline(<<EvFinished, EvNext, EvLater>>)
    /\ team_data_map = get_team_data_map(Teams)
    /\ team_fdr = calculate_fixture_difficulty(RankFixtures, Teams)
    /\ team_fixture_map = build_fixture_map(RankFixtures, RankTeamsMapShort)
    /\ elements = <<>> /\ my_picks = None /\ ranked = <<>> /\ section_idx = 0
    /\ \E n \in SendLengths \ {1} : header = Chars(n - 6)
    /\ team_summary = Chars(1) /\ captaincy_picks = Chars(1)
    /\ personal_analysis = Chars(1) /\ watchlist_text = Chars(1)
    /\ \E n \in SendLengths :
          position_summaries = <<Chars(n), Chars(1), Chars(TelegramLimit), Chars(2)>>

NextSend ==
    \/ SendChunk1
    \/ SendSection

SpecSend == InitSend /\ [][NextSend]_vars

\* the POSTs of a log
PostsOf(log) == SelectIdx(log, {i \in DOMAIN log : log[i].method = "POST"})

\* ceil(a / b)
CeilDiv(a, b) == (a + b - 1) \div b

\* C1: every document of length L handed to the sender goes to the chat
\* endpoint as exactly ceil(L / 4096) chunks, and the chunks sent for it,
\* concatenated in send order, are the document.
C1_ChunkedLossless ==
    [][documents' # documents =>
        LET d == documents'[Len(documents')]
            sent == SubSeq(PostsOf(http'), Len(PostsOf(http)) + 1, Len(PostsOf(http')))
        IN  /\ Len(sent) = CeilDiv(Len(d), TelegramLimit)
            /\ Flatten([k \in DOMAIN sent |-> sent[k].text]) = d]_vars


\* ------------------------------------------------------------- SpecScore

\* the form strings of the bulk data: a player who lost points over the
\* period has a negative form
ScoreForms ==
    {<<"-", "1", ".", "0">>, <<"-", "0", ".", "5">>, <<"0", ".", "0">>,
     <<"2", ".", "5">>, <<"6", ".", "0">>}

\* midfielders of every form and team
ScoreKinds == {[Saka EXCEPT !.form = f, !.team = t] : f \in ScoreForms, t \in 1..3}
ScoreElementLists == UNION {[1..n -> ScoreKinds] : n \in 1..MaxPlayers}

\* run_daily_digest after the deadline lookup (line 495), for any elements
\* list of ScoreElementLists and fixtures that rate the three teams apart
InitScore ==
    /\ TELEGRAM_TOKEN = "set" /\ CHAT_ID = "set"
    /\ pc = "metrics" /\ outcome = "running"
    /\ http = <<GetOk("bootstrap-static"), GetOk("fixtures")>>
    /\ documents = <<>>
    /\ data \in {Some(MidRunBody(Numbered(players))) : players \in ScoreElementLists}
    /\ fixtures = Some(RankFixtures)
    /\ gw = get_next_deadline(<<EvFinished, EvNext, EvLater>>)
    /\ team_data_map = <<>> /\ team_fdr = <<>> /\ team_fixture_map = <<>>
    /\ elements = <<>> /\ my_picks = None /\ header = <<>> /\ team_summary = <<>>
    /\ watchlist_text = <<>> /\ captaincy_picks = <<>> /\ personal_analysis = <<>>
    /\ position_summaries = <<>> /\ ranked = <<>> /\ section_idx = 0

NextScore == ComputeMetrics

SpecScore == InitScore /\ [][NextScore]_vars

\* C11: between any two enriched players, with form_value equal the one
\* of greater fixture_difficulty has no greater form_fixture_score, and
\* with fixture_difficulty equal the one of greater form_value has no
\* smaller form_fixture_score.
C11_ScoreMonotone ==
    \A i, j \in DOMAIN elements :
        /\ (elements[i].form_value = elements[j].form_value
              /\ elements[i].fixture_difficulty < elements[j].fixture_difficulty)
            => elements[i].form_fixture_score >= elements[j].form_fixture_score
        /\ (elements[i].fixture_difficulty = elements[j].fixture_difficulty
              /\ elements[i].form_value < elements[j].form_value)
            => elements[i].form_fixture_score <= elements[j].form_fixture_score

\* the part of C11 that holds: the score grows with form_value at equal
\* difficulty, and falls with difficulty at equal form_value when that
\* form_value is not negative
C11_MonotoneFromZero ==
    \A i, j \in DOMAIN elements :
        /\ (elements[i].form_value = elements[j].form_value
              /\ elements[i].form_value >= 0
              /\ elements[i].fixture_difficulty < elements[j].fixture_difficulty)
            => elements[i].form_fixture_score >= elements[j].form_fixture_score
        /\ (elements[i].fixture_difficulty = elements[j].fixture_difficulty
              /\ elements[i].form_value < elements[j].form_value)
            => elements[i].form_fixture_score <= elements[j].form_fixture_score


\* ------------------------------------------------------------- next event

\* the events the run fetched
FetchedEvents == Get(data.json, "events", <<>>)

\* the places of the events whose finished flag is not true
NotFinishedPlaces ==
    {i \in DOMAIN FetchedEvents :
        ~("finished" \in DOMAIN FetchedEvents[i] /\ FetchedEvents[i].finished)}
FirstPlace(S) == CHOOSE i \in S : \A j \in S : i <= j

\* the triple g is the name, id and deadline of event e
TripleOf(g, e) ==
    /\ g.gw_name = Get(e, "name", "Unknown GW")
    /\ "gw_id" \in DOMAIN g <=> "id" \in DOMAIN e
    /\ "id" \in DOMAIN e => g.gw_id = e.id
    /\ "deadline_time" \in DOMAIN e
    /\ g.deadline = ReplaceZ(e.deadline_time)

\* C12: the triple the deadline lookup returns is the name, id and
\* deadline of the earliest event whose finished flag is not true, never
\* that of an event placed after it.
C12_FirstUnfinishedReturned ==
    gw # <<>> =>
        /\ NotFinishedPlaces # {}
        /\ TripleOf(gw, FetchedEvents[FirstPlace(NotFinishedPlaces)])

\* the places the code can return: the flag is present and false, and the
\* deadline is a non-empty string that parses
ReturnablePlaces ==
    {i \in DOMAIN FetchedEvents :
        /\ "finished" \in DOMAIN FetchedEvents[i] /\ ~FetchedEvents[i].finished
        /\ "deadline_time" \in DOMAIN FetchedEvents[i]
        /\ FetchedEvents[i].deadline_time # JNull
        /\ IsoOk(ReplaceZ(FetchedEvents[i].deadline_time))}

\* what holds in place of C12: a triple that is returned is that of the
\* earliest event marked unfinished whose deadline parses
C12_FirstParsableReturned ==
    gw # <<>> =>
        /\ ReturnablePlaces # {}
        /\ TripleOf(gw, FetchedEvents[FirstPlace(ReturnablePlaces)])


\* ------------------------------------------------------------- buy candidates

\* the per-position lists of get_personal_analysis (watchlist_by_pos)
PersonalLists == {r \in Range(ranked) : r.fn = "get_personal_analysis"}

\* the places in elements of the players of the list's position that are
\* not in the squad
BuyCandidatesOf(r) ==
    {i \in DOMAIN elements :
        /\ Get(elements[i], "element_type", 0) = r.pos
        /\ elements[i].id \notin my_picks.json}

\* C13: every per-position list of get_personal_analysis is the top 3 of
\* the position's players outside the squad in descending order of
\* watch_score, so that its first entry, the buy candidate, has the highest
\* watch_score of them.
C13_BuyCandidatesByWatchScore ==
    \A r \in PersonalLists :
        /\ Len(r.list) = Min2(3, Cardinality(BuyCandidatesOf(r)))
        /\ \A k \in DOMAIN r.list : PlacesOf(r)[k] \in BuyCandidatesOf(r)
        /\ \A j, k \in DOMAIN r.list :
            j < k => r.list[j].watch_score >= r.list[k].watch_score
        /\ \A i \in BuyCandidatesOf(r) \ Range(PlacesOf(r)) :
            \A k \in DOMAIN r.list : r.list[k].watch_score >= elements[i].watch_score

\* what holds in place of C13: the list is the first 3 players of the
\* position outside the squad in the order of the elements list, whatever
\* their watch_score
C13_BuyCandidatesInEncounterOrder ==
    \A r \in PersonalLists :
        /\ Len(r.list) = Min2(3, Cardinality(BuyCandidatesOf(r)))
        /\ \A k \in DOMAIN r.list : PlacesOf(r)[k] \in BuyCandidatesOf(r)
        /\ \A j, k \in DOMAIN r.list : j < k => PlacesOf(r)[j] < PlacesOf(r)[k]
        /\ \A i \in BuyCandidatesOf(r) \ Range(PlacesOf(r)) :
            \A k \in DOMAIN r.list : PlacesOf(r)[k] < i

====
